---- MODULE Spec2Model ----
(***************************************************************************)
(* Visual MCP server (src/src/visual_mcp/server.py): the image normalizer, *)
(* the format validator, the GLM vision API client with its retry loop and *)
(* the analyze_image_with_context tool.                                    *)
(*                                                                         *)
(* Strings that the code parses (image inputs, paths, MIME types) are      *)
(* sequences of one-character strings.  Messages built with f-strings are  *)
(* sequences of fragments: the literal parts and the interpolated values.  *)
(***************************************************************************)
EXTENDS Integers, Sequences, FiniteSets, TLC

(* ------------------------------------------------------------------ *)
(* Bounds of the model                                                 *)
(* ------------------------------------------------------------------ *)

\* call_glm_vision_api is called directly with max_retries in
\* -1 .. MaxRetriesArg and retry_delay in 0 .. MaxDelayArg
MaxRetriesArg == 3
MaxDelayArg == 2

(* ------------------------------------------------------------------ *)
(* Python values                                                       *)
(* ------------------------------------------------------------------ *)

None == "None"

Exc(type, msg) == [type |-> type, msg |-> msg]

\* no exception (a None where the code holds an exception or None)
NoExc == Exc("None", <<>>)

Ok(val) == [ok |-> TRUE, val |-> val]

Raise(exc) == [ok |-> FALSE, exc |-> exc]

UpperAlpha == <<"A", "B", "C", "D", "E", "F", "G", "H", "I", "J", "K", "L", "M", "N", "O", "P", "Q", "R", "S", "T", "U", "V", "W", "X", "Y", "Z">>

LowerAlpha == <<"a", "b", "c", "d", "e", "f", "g", "h", "i", "j", "k", "l", "m", "n", "o", "p", "q", "r", "s", "t", "u", "v", "w", "x", "y", "z">>

Digits == <<"0", "1", "2", "3", "4", "5", "6", "7", "8", "9">>

\* the base64 alphabet, in value order
B64Alphabet == UpperAlpha \o LowerAlpha \o Digits \o <<"+", "/">>

Range(s) == {s[i] : i \in 1..Len(s)}

\* str.lower() on one character
LowerChar(c) ==
    IF \E i \in 1..Len(UpperAlpha) : UpperAlpha[i] = c
    THEN LowerAlpha[CHOOSE i \in 1..Len(UpperAlpha) : UpperAlpha[i] = c]
    ELSE c

\* str.lower()
Lower(s) == [i \in 1..Len(s) |-> LowerChar(s[i])]

\* str.startswith(prefix)
StartsWith(s, prefix) ==
    /\ Len(s) >= Len(prefix)
    /\ SubSeq(s, 1, Len(prefix)) = prefix

\* index of the first occurrence of the character sep in s, 0 when absent
Find_Last(s, sep) ==
    IF \E i \in 1..Len(s) : s[i] = sep
    THEN CHOOSE i \in 1..Len(s) : s[i] = sep /\ \A j \in (i+1)..Len(s) : s[j] # sep
    ELSE 0

Find(s, sep) ==
    IF \E i \in 1..Len(s) : s[i] = sep
    THEN CHOOSE i \in 1..Len(s) : s[i] = sep /\ \A j \in 1..(i-1) : s[j] # sep
    ELSE 0

\* s.split(sep, 1): a list of one or two strings
Split1(s, sep) ==
    IF Find(s, sep) = 0
    THEN <<s>>
    ELSE <<SubSeq(s, 1, Find(s, sep) - 1), SubSeq(s, Find(s, sep) + 1, Len(s))>>

\* s + "=" * n
PadEq(s, n) == s \o [i \in 1..n |-> "="]

\* the number of "=" characters that end s
RECURSIVE TrailingEq(_)
TrailingEq(s) ==
    IF s = <<>> \/ s[Len(s)] # "=" THEN 0
    ELSE 1 + TrailingEq(SubSeq(s, 1, Len(s) - 1))

\* base64.b64decode(s, validate=True) succeeds: only alphabet characters
\* before the padding, and the padding completes the last group of four
B64DecodeOk(s) ==
    LET k == TrailingEq(s)
        body == SubSeq(s, 1, Len(s) - k)
        r == Len(body) % 4
    IN  /\ Len(s) % 4 = 0
        /\ Range(body) \subseteq Range(B64Alphabet)
        /\ \/ r = 0 /\ k = 0
           \/ r = 0 /\ k > 0 /\ body # <<>>
           \/ r = 2 /\ k = 2
           \/ r = 3 /\ k = 1

\* base64.b64encode(bytes).decode("utf-8"), bytes a sequence of 0..255
RECURSIVE B64Encode(_)
B64Encode(bytes) ==
    LET ch(n) == B64Alphabet[n + 1]
        b1 == bytes[1]
        b2 == IF Len(bytes) >= 2 THEN bytes[2] ELSE 0
        b3 == IF Len(bytes) >= 3 THEN bytes[3] ELSE 0
    IN  IF bytes = <<>> THEN <<>>
        ELSE IF Len(bytes) = 1
        THEN <<ch(b1 \div 4), ch((b1 % 4) * 16), "=", "=">>
        ELSE IF Len(bytes) = 2
        THEN <<ch(b1 \div 4), ch((b1 % 4) * 16 + b2 \div 16),
               ch((b2 % 16) * 4), "=">>
        ELSE <<ch(b1 \div 4), ch((b1 % 4) * 16 + b2 \div 16),
               ch((b2 % 16) * 4 + b3 \div 64), ch(b3 % 64)>>
             \o B64Encode(SubSeq(bytes, 4, Len(bytes)))

(* ------------------------------------------------------------------ *)
(* The strings the model draws its inputs from                         *)
(* ------------------------------------------------------------------ *)

DATA_IMAGE == <<"d", "a", "t", "a", ":", "i", "m", "a", "g", "e">>

IMAGE_SLASH == <<"i", "m", "a", "g", "e", "/">>

IMAGE_JPEG == <<"i", "m", "a", "g", "e", "/", "j", "p", "e", "g">>

IMAGE_JPG == <<"i", "m", "a", "g", "e", "/", "j", "p", "g">>

IMAGE_PNG == <<"i", "m", "a", "g", "e", "/", "p", "n", "g">>

IMAGE_GIF == <<"i", "m", "a", "g", "e", "/", "g", "i", "f">>

TEXT_PLAIN == <<"t", "e", "x", "t", "/", "p", "l", "a", "i", "n">>

MIME_UPPER_PNG == <<"I", "M", "A", "G", "E", "/", "P", "N", "G">>

\* raw base64: "QUJD" decodes to b"ABC", "QQ" needs padding, "Q!" is invalid
RAW_OK == <<"Q", "U", "J", "D">>

RAW_NOPAD == <<"Q", "Q">>

RAW_BAD == <<"Q", "!">>

URL_PNG == <<"d", "a", "t", "a", ":", "i", "m", "a", "g", "e", "/", "p", "n", "g", ";", "b", "a", "s", "e", "6", "4", ",", "Q", "U", "J", "D">>

URL_GIF == <<"d", "a", "t", "a", ":", "i", "m", "a", "g", "e", "/", "g", "i", "f", ";", "b", "a", "s", "e", "6", "4", ",", "Q", "Q", "=", "=">>

URL_NOCOMMA == <<"d", "a", "t", "a", ":", "i", "m", "a", "g", "e", "/", "p", "n", "g">>

PATH_PNG == <<"/", "a", ".", "p", "n", "g">>

PATH_GIF == <<"/", "b", ".", "g", "i", "f">>

PATH_TXT == <<"/", "c", ".", "t", "x", "t">>

PATH_NOEXT == <<"/", "d">>

PATH_DENIED == <<"/", "e", ".", "j", "p", "g">>

PATH_DIR == <<"/", "f", ".", "p", "n", "g">>

PATH_MISSING == <<"/", "g", ".", "p", "n", "g">>

FMT_PNG == <<"p", "n", "g">>

FMT_JPEG == <<"j", "p", "e", "g">>

FMT_GIF == <<"g", "i", "f">>

FMT_UPPER == <<"P", "N", "G">>

FMT_SVG == <<"s", "v", "g", "+", "x", "m", "l">>

PAYLOAD_PADDED == <<"Q", "Q", "=", "=">>

PAYLOAD_COMMA == <<"Q", "U", ",", "J", "D">>

PAYLOAD_SEMI == <<"Q", "U", ";", "J", "D">>

URL_NOPAYLOAD == <<"d", "a", "t", "a", ":", "i", "m", "a", "g", "e", "/", "p", "n", "g", ";", "b", "a", "s", "e", "6", "4">>

MIME_MIXED_JPG == <<"I", "m", "a", "g", "e", "/", "J", "p", "g">>

MIME_UPPER_GIF == <<"I", "M", "A", "G", "E", "/", "G", "I", "F">>

MIME_WEBP == <<"i", "m", "a", "g", "e", "/", "w", "e", "b", "p">>

(* ------------------------------------------------------------------ *)
(* The file system seen by os.path.exists, mimetypes and open          *)
(* ------------------------------------------------------------------ *)

File(kind, bytes) == [kind |-> kind, bytes |-> bytes]

\* the entries that exist; PATH_MISSING and every other string do not
FileSystem ==
    (PATH_PNG :> File("file", <<65, 66, 67>>)) @@
    (PATH_GIF :> File("file", <<65>>)) @@
    (PATH_TXT :> File("file", <<65, 66>>)) @@
    (PATH_NOEXT :> File("file", <<65, 66, 67, 68>>)) @@
    (PATH_DENIED :> File("unreadable", <<65>>)) @@
    (PATH_DIR :> File("dir", <<>>))

\* os.path.exists(path)
PathExists(path) == path \in DOMAIN FileSystem

\* the extension of a path: the text from its last "." on, "" when none
RECURSIVE Extension(_)
Extension(path) ==
    IF path = <<>> \/ path[Len(path)] = "/" THEN <<>>
    ELSE IF path[Len(path)] = "." THEN <<".">>
    ELSE LET e == Extension(SubSeq(path, 1, Len(path) - 1))
         IN  IF e = <<>> THEN <<>> ELSE e \o <<path[Len(path)]>>

\* mimetypes.guess_type(path)[0] for the extensions of the model's paths;
\* <<>> stands for None
GuessType(path) ==
    LET ext == Lower(Extension(path))
    IN  CASE ext = <<".", "p", "n", "g">> -> IMAGE_PNG
          [] ext = <<".", "j", "p", "g">> -> IMAGE_JPEG
          [] ext = <<".", "j", "p", "e", "g">> -> IMAGE_JPEG
          [] ext = <<".", "g", "i", "f">> -> IMAGE_GIF
          [] ext = <<".", "t", "x", "t">> -> TEXT_PLAIN
          [] OTHER -> <<>>

\* what open(path, "rb") and file.read() can do: the file may vanish between
\* os.path.exists and open, and a read may fail
OpenOutcomes(path) ==
    IF ~PathExists(path) THEN {"FileNotFoundError"}
    ELSE CASE FileSystem[path].kind = "file" -> {"ok", "FileNotFoundError", "OSError"}
           [] FileSystem[path].kind = "unreadable" -> {"PermissionError"}
           [] OTHER -> {"IsADirectoryError"}

(* ------------------------------------------------------------------ *)
(* Image normalizer and format validator                               *)
(* ------------------------------------------------------------------ *)

\* encode_file_to_base64(file_path), open/read ending as `outcome`
encode_file_to_base64_Leaky(file_path, outcome) ==
    LET guessed == GuessType(file_path)
        mime_type == IF guessed = <<>> \/ ~StartsWith(guessed, IMAGE_SLASH)
                     THEN IMAGE_JPEG ELSE guessed
    IN  CASE outcome = "ok" ->
                Ok(<<B64Encode(FileSystem[file_path].bytes), mime_type>>)
          [] outcome = "FileNotFoundError" ->
                Raise(Exc("ValueError", <<"File not found: ">> \o file_path))
          [] outcome = "PermissionError" ->
                Raise(Exc("ValueError",
                          <<"Permission denied when reading file: ">> \o file_path))
          [] OTHER ->
                Raise(Exc(outcome, <<"[Errno] ">> \o file_path))

encode_file_to_base64(file_path, outcome) ==
    LET guessed == GuessType(file_path)
        mime_type == IF guessed = <<>> \/ ~StartsWith(guessed, IMAGE_SLASH)
                     THEN IMAGE_JPEG ELSE guessed
    IN  CASE outcome = "ok" ->
                Ok(<<B64Encode(FileSystem[file_path].bytes), mime_type>>)
          [] outcome = "FileNotFoundError" ->
                Raise(Exc("ValueError", <<"File not found: ">> \o file_path))
          [] outcome = "PermissionError" ->
                Raise(Exc("ValueError",
                          <<"Permission denied when reading file: ">> \o file_path))
          [] OTHER ->
                Raise(Exc("ValueError",
                          <<"Failed to encode file ">> \o file_path
                              \o <<": ", outcome>>))

\* prepare_image_for_api(image_input), an open of the file ending as `outcome`
prepare_image_for_api(image_input, outcome) ==
    IF PathExists(image_input)
    THEN encode_file_to_base64(image_input, outcome)
    ELSE IF StartsWith(image_input, DATA_IMAGE)
    THEN LET parts == Split1(image_input, ",")
         IN  IF Len(parts) = 2
             THEN Ok(<<parts[2], Split1(Split1(parts[1], ";")[1], ":")[2]>>)
             \* the unpacking fails, and so does [1] in the fallback
             ELSE Raise(Exc("IndexError", <<"list index out of range">>))
    ELSE Ok(<<image_input, IMAGE_JPEG>>)

\* is_valid_base64(base64_string)
is_valid_base64(base64_string) ==
    LET padding_needed == Len(base64_string) % 4
    IN  B64DecodeOk(IF padding_needed # 0
                    THEN PadEq(base64_string, 4 - padding_needed)
                    ELSE base64_string)

supported_formats_WithGif == {IMAGE_JPEG, IMAGE_JPG, IMAGE_PNG, IMAGE_GIF}

supported_formats == {IMAGE_JPEG, IMAGE_JPG, IMAGE_PNG}

\* validate_image_format(mime_type)
validate_image_format_NoCoerce(mime_type) == Lower(mime_type)

validate_image_format(mime_type) ==
    IF Lower(mime_type) \notin supported_formats
    THEN IMAGE_JPEG
    ELSE Lower(mime_type)

(* ------------------------------------------------------------------ *)
(* Configuration: the process environment and the module globals       *)
(* ------------------------------------------------------------------ *)

DEFAULT_API_BASE == "https://nano-gpt.com/api/v1"

DEFAULT_MODEL_NAME == "zai-org/GLM-4.5V-FP8"

\* os.environ: None stands for a variable that is not set
Environs ==
    [GLM_API_BASE : {None, "", "https://glm.example/v1"},
     GLM_API_KEY : {None, "sk-1"},
     GLM_MODEL_NAME : {None, "glm-4.5v"}]

\* os.getenv(name, default)
Getenv(env, name, default) == IF env[name] = None THEN default ELSE env[name]

\* Python truth of a str | None
Truthy(v) == v # None /\ v # ""

VARIABLES
    environ,          \* os.environ
    GLM_API_BASE,     \* module global, server.py:32
    GLM_API_KEY,      \* module global, server.py:33
    GLM_MODEL_NAME,   \* module global, server.py:34
    tool,             \* the frame of analyze_image_with_context
    api,              \* the frame of call_glm_vision_api
    obs,              \* what the transport and the event loop saw of the call
    trace,            \* the operations analyze_image_with_context performed
    fn,               \* a direct call of the normalizer or the validator
    calls             \* the frames of concurrent calls of call_glm_vision_api

globals == <<GLM_API_BASE, GLM_API_KEY, GLM_MODEL_NAME>>

vars == <<environ, GLM_API_BASE, GLM_API_KEY, GLM_MODEL_NAME, tool, api, obs, trace, fn,
          calls>>

(* ------------------------------------------------------------------ *)
(* Frames                                                              *)
(* ------------------------------------------------------------------ *)

\* defaults of call_glm_vision_api and analyze_image_with_context
DEFAULT_MAX_RETRIES == 5

DEFAULT_RETRY_DELAY == 2

DEFAULT_API_MAX_TOKENS == 2048

DEFAULT_TOOL_MAX_TOKENS == 3000

NoPayload == [model |-> None, text |-> <<>>, image_url |-> <<>>, max_tokens |-> 0]

\* a configuration value that the call has not read
Unread == "unread"

NoConfig == [GLM_API_BASE |-> Unread, GLM_API_KEY |-> Unread, GLM_MODEL_NAME |-> Unread]

NoOutcome == [kind |-> "none", status |-> 0, body |-> "", text |-> ""]

\* pc: "idle", "init" (called), "attempting" (awaiting client.post),
\* "retrywait" (awaiting asyncio.sleep), "success" (returned), "failed" (raised)
IdleApi ==
    [pc |-> "idle", caller |-> None,
     image_base64 |-> <<>>, prompt |-> <<>>, mime_type |-> <<>>,
     max_tokens |-> 0, max_retries |-> 0, retry_delay |-> 0,
     config |-> NoConfig, authorization |-> <<>>, payload |-> NoPayload,
     attempt |-> 0, last_error |-> NoExc,
     returned |-> <<>>, raised |-> NoExc]

\* pc: "idle", "info_starting", "prepare", "call", "awaiting", "info_completed",
\* "except", "returned", "raised"
IdleTool ==
    [pc |-> "idle", image_data |-> <<>>, user_context |-> "", max_tokens |-> 0,
     ctx |-> FALSE, image_base64 |-> <<>>, mime_type |-> <<>>, result |-> <<>>,
     e |-> NoExc, returned |-> <<>>, raised |-> NoExc]

\* posts: requests sent; sleeps: the delays of the asyncio.sleep calls;
\* last: how the most recent attempt ended; all500: every attempt so far
\* ended with HTTP status 500; sessions: the httpx.AsyncClient sessions the
\* call has entered, numbered from 1; open: those not yet exited
IdleObs ==
    [posts |-> 0, sleeps |-> <<>>, last |-> NoOutcome, all500 |-> TRUE,
     sessions |-> 0, open |-> {}]

Event(op, arg, ok) == [op |-> op, arg |-> arg, ok |-> ok]

\* a direct call of prepare_image_for_api, encode_file_to_base64 or
\* validate_image_format: the function, its argument, how the open of the
\* file ended, what the call gave, and for validate_image_format the number of
\* applications and the value before the last one
IdleFn ==
    [op |-> "none", arg |-> <<>>, outcome |-> "", result |-> Ok(<<>>),
     applied |-> 0, prev |-> <<>>]

\* the tasks of the event loop that call call_glm_vision_api concurrently
Tasks == {"task A", "task B"}

\* one concurrent call: its frame, the frame it was called with, the
\* responses its requests get (script) and those not yet consumed (todo)
IdleCall == [frame |-> IdleApi, args |-> IdleApi, script |-> <<>>, todo |-> <<>>]

Init ==
    /\ environ \in Environs
    /\ GLM_API_BASE = Getenv(environ, "GLM_API_BASE", DEFAULT_API_BASE)
    /\ GLM_API_KEY = Getenv(environ, "GLM_API_KEY", None)
    /\ GLM_MODEL_NAME = Getenv(environ, "GLM_MODEL_NAME", DEFAULT_MODEL_NAME)
    /\ tool = IdleTool
    /\ api = IdleApi
    /\ obs = IdleObs
    /\ trace = <<>>
    /\ fn = IdleFn
    /\ calls = [t \in Tasks |-> IdleCall]

(* ------------------------------------------------------------------ *)
(* Vision API client: call_glm_vision_api                              *)
(* ------------------------------------------------------------------ *)

Outcome(kind, status, body, text) ==
    [kind |-> kind, status |-> status, body |-> body, text |-> text]

\* choices[0].message.content of a well-formed response
Contents == {"answer A", "answer B"}

\* the statuses raise_for_status raises for, and the error bodies: JSON with
\* error.message, JSON without it, not JSON
ErrorStatuses == {401, 403, 404, 429, 500}

ErrorBodies == {"message", "empty", "text"}

OkOutcomes == {Outcome("ok", 200, "json", c) : c \in Contents}

StatusOutcomes ==
    {Outcome("status", s, b, IF b = "text" THEN "<html>" ELSE "quota exceeded") :
        s \in ErrorStatuses, b \in ErrorBodies}

TimeoutOutcomes == {Outcome("timeout", 0, "", "timed out")}

NetworkOutcomes == {Outcome("network", 0, "", "connection refused")}

\* any other exception of the try body: client.post raises something else, or
\* a 2xx body is not JSON or lacks choices[0].message.content
UnexpectedOutcomes ==
    {Outcome("unexpected", 0, "", "unsupported protocol"),
     Outcome("malformed", 200, "text", "Expecting value"),
     Outcome("malformed", 200, "json", "'choices'")}

RuntimeError(msg) == Exc("RuntimeError", msg)

\* lines 184-185: result["choices"][0]["message"]["content"]
ResponseContent_Choice(o) == <<"choices", o.text>>

ResponseContent(o) == <<o.text>>

\* the message of the error captured from an attempt, lines 187-211
error_msg(o) ==
    CASE o.kind = "status" ->
            <<"GLM API error: ", ToString(o.status)>> \o
            (CASE o.body = "message" -> <<" - ", o.text, " error">>
               [] o.body = "empty" -> <<" - ", "Unknown", " error">>
               [] OTHER -> <<" - ", o.text>>)
      [] o.kind = "timeout" -> <<"GLM API timeout: ", o.text>>
      [] o.kind = "network" -> <<"GLM API network error: ", o.text>>
      [] OTHER -> <<"Failed to call GLM API: ", o.text,
                    "            Traceback: ", "<traceback>">>

\* last_error after the except clause of a failed attempt
Captured_First(last_error, o) ==
    IF last_error # NoExc THEN last_error ELSE RuntimeError(error_msg(o))

Captured(last_error, o) == RuntimeError(error_msg(o))

\* line 201: the statuses that end the loop
NonRetryable_AuthOnly(o) == o.kind = "status" /\ o.status \in {401, 403}

NonRetryable_AllStatus(o) == o.kind = "status"

NonRetryable(o) == o.kind = "status" /\ o.status \in {401, 403, 429}

\* line 214: this is not the last attempt
NotLastAttempt_OffByOne(attempt, max_retries) == attempt < max_retries

NotLastAttempt(attempt, max_retries) == attempt < max_retries - 1

\* line 215: the exponential backoff delay
Backoff_Constant(retry_delay, attempt) == retry_delay

Backoff(retry_delay, attempt) == retry_delay * (2 ^ attempt)

\* line 176: `attempt` is a value of range(max_retries)
InRange_Inclusive(attempt, max_retries) == 0 <= attempt /\ attempt <= max_retries

InRange(attempt, max_retries) == 0 <= attempt /\ attempt < max_retries

\* lines 218-221: what is raised once the loop is left
RaisedAfterLoop_AlwaysGeneric(last_error) ==
    RuntimeError(<<"Failed to call GLM API after maximum retries">>)

RaisedAfterLoop(last_error) ==
    IF last_error # NoExc
    THEN last_error
    ELSE RuntimeError(<<"Failed to call GLM API after maximum retries">>)

\* lines 138-146: the exception of a failed precondition, NoExc when all hold
PreconditionError_NoBase64(image_base64) ==
    IF ~Truthy(GLM_API_KEY)
    THEN Exc("ValueError", <<"GLM_API_KEY environment variable not set">>)
    ELSE IF ~Truthy(GLM_API_BASE)
    THEN Exc("ValueError", <<"GLM_API_BASE environment variable not set">>)
    ELSE NoExc

PreconditionError(image_base64) ==
    IF ~Truthy(GLM_API_KEY)
    THEN Exc("ValueError", <<"GLM_API_KEY environment variable not set">>)
    ELSE IF ~Truthy(GLM_API_BASE)
    THEN Exc("ValueError", <<"GLM_API_BASE environment variable not set">>)
    ELSE IF ~is_valid_base64(image_base64)
    THEN Exc("ValueError", <<"Invalid base64 image data">>)
    ELSE NoExc

\* lines 138-157: the configuration values the call reads from the module
\* globals: the key, the base once the key is there, the model name once the
\* preconditions hold
ConfigRead(image_base64) ==
    [GLM_API_KEY |-> GLM_API_KEY,
     GLM_API_BASE |-> IF Truthy(GLM_API_KEY) THEN GLM_API_BASE ELSE Unread,
     GLM_MODEL_NAME |-> IF PreconditionError(image_base64) = NoExc
                        THEN GLM_MODEL_NAME ELSE Unread]

\* lines 156-172: the request body
Payload(image_base64, prompt, mime_type, max_tokens) ==
    [model |-> GLM_MODEL_NAME,
     text |-> prompt,
     image_url |-> <<"d", "a", "t", "a", ":">> \o mime_type
                     \o <<";", "b", "a", "s", "e", "6", "4", ",">> \o image_base64,
     max_tokens |-> max_tokens]

\* line 178: `async with httpx.AsyncClient(...) as client` is entered n times
\* (0 or 1)
OpenSession(o, n) ==
    [o EXCEPT !.sessions = @ + n,
              !.open = IF n = 1 THEN @ \cup {o.sessions + 1} ELSE @]

\* line 178: the `async with` block is left, by return or by exception
Release_Leak(open, session) == open

Release(open, session) == open \ {session}

CloseSession(o) == [o EXCEPT !.open = Release(@, o.sessions)]

\* the frame of a new call
NewCall(caller, image_base64, prompt, mime_type, max_tokens, max_retries, retry_delay) ==
    [IdleApi EXCEPT !.pc = "init", !.caller = caller,
                    !.image_base64 = image_base64, !.prompt = prompt,
                    !.mime_type = mime_type, !.max_tokens = max_tokens,
                    !.max_retries = max_retries, !.retry_delay = retry_delay]

\* the arguments of the direct calls
DirectArgs ==
    [image_base64 : {RAW_OK, RAW_NOPAD, RAW_BAD},
     mime_type : {IMAGE_JPEG, MIME_UPPER_PNG, IMAGE_GIF},
     max_tokens : {DEFAULT_API_MAX_TOKENS},
     max_retries : (-1)..MaxRetriesArg,
     retry_delay : 0..MaxDelayArg]

\* a caller other than the tool awaits call_glm_vision_api(...)
CallDirect(Args) ==
    /\ tool.pc = "idle"
    /\ api.pc = "idle"
    /\ \E a \in Args :
          api' = NewCall("direct", a.image_base64, <<"Test prompt">>, a.mime_type,
                         a.max_tokens, a.max_retries, a.retry_delay)
    /\ obs' = IdleObs
    /\ trace' = <<>>
    /\ UNCHANGED <<calls, fn, environ, globals, tool>>

\* lines 138-181: the preconditions, the payload, and the first pass into
\* the loop up to the await of client.post
BeginFrame(called) ==
    LET err == PreconditionError(called.image_base64)
        mime == validate_image_format(called.mime_type)
        frame == [called EXCEPT !.config = ConfigRead(called.image_base64),
                                !.mime_type = mime,
                                !.authorization = <<"Bearer ", GLM_API_KEY>>,
                                !.payload = Payload(called.image_base64, called.prompt,
                                                    mime, called.max_tokens),
                                !.last_error = NoExc]
    IN  IF err # NoExc
        THEN [called EXCEPT !.pc = "failed",
                            !.config = ConfigRead(called.image_base64),
                            !.raised = err]
        ELSE IF InRange(0, called.max_retries)
        THEN [frame EXCEPT !.pc = "attempting", !.attempt = 0]
        ELSE [frame EXCEPT !.pc = "failed", !.raised = RaisedAfterLoop(NoExc)]

ApiBegin ==
    /\ api.pc = "init"
    /\ api' = BeginFrame(api)
    /\ obs' = IF BeginFrame(api).pc = "attempting"
              THEN OpenSession([obs EXCEPT !.posts = @ + 1], 1)
              ELSE obs
    /\ UNCHANGED <<calls, fn, environ, globals, tool, trace>>

\* lines 176-181 and 217-221: the loop takes its next value and awaits
\* client.post, or is exhausted and the function raises
LoopAdvance_GiveUp(frame) ==
    [frame EXCEPT !.pc = "failed", !.raised = RaisedAfterLoop(frame.last_error)]

LoopAdvance(frame) ==
    IF InRange(frame.attempt + 1, frame.max_retries)
    THEN [frame EXCEPT !.pc = "attempting", !.attempt = @ + 1]
    ELSE [frame EXCEPT !.pc = "failed", !.raised = RaisedAfterLoop(frame.last_error)]

Posted(frame) == IF frame.pc = "attempting" THEN 1 ELSE 0

\* lines 177-221: the awaited client.post ends as `o`; the rest of the try
\* body or the except clause that matches, the backoff decision, and the
\* raise after the loop
AfterAttempt_StaleError(frame, o) ==
    LET err == Captured(frame.last_error, o)
        caught == [frame EXCEPT !.last_error = err]
    IN  IF o.kind = "ok" /\ frame.last_error = NoExc
        THEN [frame EXCEPT !.pc = "success", !.returned = ResponseContent(o)]
        ELSE IF o.kind = "ok"
        THEN [frame EXCEPT !.pc = "failed", !.raised = frame.last_error]
        ELSE IF NonRetryable(o)
        THEN [caught EXCEPT !.pc = "failed", !.raised = RaisedAfterLoop(err)]
        ELSE IF NotLastAttempt(frame.attempt, frame.max_retries)
        THEN [caught EXCEPT !.pc = "retrywait"]
        ELSE LoopAdvance(caught)

AfterAttempt(frame, o) ==
    LET err == Captured(frame.last_error, o)
        caught == [frame EXCEPT !.last_error = err]
    IN  IF o.kind = "ok"
        THEN [frame EXCEPT !.pc = "success", !.returned = ResponseContent(o)]
        ELSE IF NonRetryable(o)
        THEN [caught EXCEPT !.pc = "failed", !.raised = RaisedAfterLoop(err)]
        ELSE IF NotLastAttempt(frame.attempt, frame.max_retries)
        THEN [caught EXCEPT !.pc = "retrywait"]
        ELSE LoopAdvance(caught)

AttemptEnds(o) ==
    LET seen == CloseSession(
                    [obs EXCEPT !.last = o,
                                !.all500 = @ /\ o.kind = "status" /\ o.status = 500])
        next == AfterAttempt(api, o)
    IN  /\ api' = next
        /\ obs' = CASE next.pc = "retrywait" ->
                          [seen EXCEPT !.sleeps =
                              Append(@, Backoff(api.retry_delay, api.attempt))]
                     [] next.pc = "attempting" ->
                          OpenSession([seen EXCEPT !.posts = @ + 1], 1)
                     [] OTHER -> seen
        /\ UNCHANGED <<calls, fn, environ, globals, tool, trace>>

\* lines 178-185: the response is a 2xx with a well-formed body
AttemptSucceeds ==
    /\ api.pc = "attempting"
    /\ \E o \in OkOutcomes : AttemptEnds(o)

\* lines 187-202: raise_for_status raised httpx.HTTPStatusError
AttemptHTTPStatusError ==
    /\ api.pc = "attempting"
    /\ \E o \in StatusOutcomes : AttemptEnds(o)

\* lines 204-205: httpx.TimeoutException
AttemptTimeout ==
    /\ api.pc = "attempting"
    /\ \E o \in TimeoutOutcomes : AttemptEnds(o)

\* lines 206-207: httpx.NetworkError
AttemptNetworkError ==
    /\ api.pc = "attempting"
    /\ \E o \in NetworkOutcomes : AttemptEnds(o)

\* lines 208-211: any other exception
AttemptUnexpected ==
    /\ api.pc = "attempting"
    /\ \E o \in UnexpectedOutcomes : AttemptEnds(o)

\* the awaited asyncio.sleep ends: the next pass of the loop
SleepEnds ==
    /\ api.pc = "retrywait"
    /\ api' = LoopAdvance(api)
    /\ obs' = OpenSession([obs EXCEPT !.posts = @ + Posted(LoopAdvance(api))],
                          Posted(LoopAdvance(api)))
    /\ UNCHANGED <<calls, fn, environ, globals, tool, trace>>

(* ------------------------------------------------------------------ *)
(* Analysis orchestrator: analyze_image_with_context                   *)
(* ------------------------------------------------------------------ *)

\* what the tool is given as image_data
ImageInputs ==
    {RAW_OK, RAW_BAD, URL_PNG, URL_GIF, URL_NOCOMMA,
     PATH_PNG, PATH_GIF, PATH_TXT, PATH_DENIED, PATH_DIR, PATH_MISSING}

UserContexts == {"Extract text", "Describe this photo"}

ToolArgs ==
    [image_data : ImageInputs,
     user_context : UserContexts,
     max_tokens : {DEFAULT_TOOL_MAX_TOKENS, 1000},
     ctx : BOOLEAN]

\* lines 260-276: the prompt built around user_context
enhanced_prompt(user_context) ==
    <<"\nYou are a comprehensive visual analysis assistant. [...]\n\nUSER CONTEXT: ",
      user_context,
      "\n\nBased on this context, provide the most appropriate analysis [...]\n">>

\* the exception of a ctx.info or ctx.error call that fails
SinkError == Exc("SinkError", <<"notification not sent">>)

INFO_STARTING == <<"Starting image analysis with context...">>

INFO_COMPLETED == <<"Image analysis completed successfully">>

\* line 289: the failure string
FailureString_NoPrefix(e) == e.msg

FailureString(e) == <<"Image analysis failed: ">> \o e.msg

\* the tool is called; ctx is TRUE when a Context is passed
Analyze(Args) ==
    /\ tool.pc = "idle"
    /\ api.pc = "idle"
    /\ \E a \in Args :
          tool' = [IdleTool EXCEPT !.pc = IF a.ctx THEN "info_starting" ELSE "prepare",
                                   !.image_data = a.image_data,
                                   !.user_context = a.user_context,
                                   !.max_tokens = a.max_tokens,
                                   !.ctx = a.ctx]
    /\ obs' = IdleObs
    /\ trace' = <<>>
    /\ UNCHANGED <<calls, fn, environ, globals, api>>

\* lines 252-253: await ctx.info(...), which returns or raises
InfoStarting ==
    /\ tool.pc = "info_starting"
    /\ \E ok \in BOOLEAN :
          /\ trace' = Append(trace, Event("info", INFO_STARTING, ok))
          /\ tool' = IF ok
                     THEN [tool EXCEPT !.pc = "prepare"]
                     ELSE [tool EXCEPT !.pc = "except", !.e = SinkError]
    /\ UNCHANGED <<calls, fn, environ, globals, api, obs>>

\* line 256: prepare_image_for_api(image_data)
Prepare ==
    /\ tool.pc = "prepare"
    /\ \E outcome \in OpenOutcomes(tool.image_data) :
          LET r == prepare_image_for_api(tool.image_data, outcome)
          IN  /\ trace' = Append(trace, Event("prepare_image_for_api",
                                              tool.image_data, r.ok))
              /\ tool' = IF r.ok
                         THEN [tool EXCEPT !.pc = "call",
                                           !.image_base64 = r.val[1],
                                           !.mime_type = r.val[2]]
                         ELSE [tool EXCEPT !.pc = "except", !.e = r.exc]
    /\ UNCHANGED <<calls, fn, environ, globals, api, obs>>

\* lines 260-281: the prompt, and the call of call_glm_vision_api with the
\* defaults of max_retries and retry_delay
CallApi_DefaultTokens ==
    /\ tool.pc = "call"
    /\ api' = NewCall("tool", tool.image_base64, enhanced_prompt(tool.user_context),
                      tool.mime_type, DEFAULT_API_MAX_TOKENS,
                      DEFAULT_MAX_RETRIES, DEFAULT_RETRY_DELAY)
    /\ tool' = [tool EXCEPT !.pc = "awaiting"]
    /\ trace' = Append(trace, Event("call_glm_vision_api", tool.image_base64, TRUE))
    /\ UNCHANGED <<calls, fn, environ, globals, obs>>

CallApi ==
    /\ tool.pc = "call"
    /\ api' = NewCall("tool", tool.image_base64, enhanced_prompt(tool.user_context),
                      tool.mime_type, tool.max_tokens,
                      DEFAULT_MAX_RETRIES, DEFAULT_RETRY_DELAY)
    /\ tool' = [tool EXCEPT !.pc = "awaiting"]
    /\ trace' = Append(trace, Event("call_glm_vision_api", tool.image_base64, TRUE))
    /\ UNCHANGED <<calls, fn, environ, globals, obs>>

\* lines 279-286: call_glm_vision_api returned
ApiReturns_NoCompleted ==
    /\ tool.pc = "awaiting"
    /\ api.pc = "success"
    /\ tool' = [tool EXCEPT !.pc = "returned", !.result = api.returned,
                            !.returned = api.returned]
    /\ trace' = Append(trace, Event("result", api.returned, TRUE))
    /\ UNCHANGED <<calls, fn, environ, globals, api, obs>>

ApiReturns ==
    /\ tool.pc = "awaiting"
    /\ api.pc = "success"
    /\ tool' = IF tool.ctx
               THEN [tool EXCEPT !.pc = "info_completed", !.result = api.returned]
               ELSE [tool EXCEPT !.pc = "returned", !.result = api.returned,
                                 !.returned = api.returned]
    /\ trace' = Append(trace, Event("result", api.returned, TRUE))
    /\ UNCHANGED <<calls, fn, environ, globals, api, obs>>

\* lines 279-288: call_glm_vision_api raised
ApiRaises ==
    /\ tool.pc = "awaiting"
    /\ api.pc = "failed"
    /\ tool' = [tool EXCEPT !.pc = "except", !.e = api.raised]
    /\ trace' = Append(trace, Event("result", api.raised.msg, FALSE))
    /\ UNCHANGED <<calls, fn, environ, globals, api, obs>>

\* lines 283-286: await ctx.info(...), then return result
InfoCompleted ==
    /\ tool.pc = "info_completed"
    /\ \E ok \in BOOLEAN :
          /\ trace' = Append(trace, Event("info", INFO_COMPLETED, ok))
          /\ tool' = IF ok
                     THEN [tool EXCEPT !.pc = "returned", !.returned = tool.result]
                     ELSE [tool EXCEPT !.pc = "except", !.e = SinkError]
    /\ UNCHANGED <<calls, fn, environ, globals, api, obs>>

\* lines 288-292: except Exception: the failure string, await ctx.error(...)
\* which returns or raises, return error_msg
HandleException ==
    /\ tool.pc = "except"
    /\ IF tool.ctx
       THEN \E ok \in BOOLEAN :
               /\ trace' = Append(trace, Event("error", FailureString(tool.e), ok))
               /\ tool' = IF ok
                          THEN [tool EXCEPT !.pc = "returned",
                                            !.returned = FailureString(tool.e)]
                          ELSE [tool EXCEPT !.pc = "raised", !.raised = SinkError]
       ELSE /\ trace' = trace
            /\ tool' = [tool EXCEPT !.pc = "returned",
                                    !.returned = FailureString(tool.e)]
    /\ UNCHANGED <<calls, fn, environ, globals, api, obs>>

(* ------------------------------------------------------------------ *)
(* The callers and the environment                                     *)
(* ------------------------------------------------------------------ *)

\* the call is over and its frames are gone
Done ==
    \/ tool.pc \in {"returned", "raised"}
    \/ tool.pc = "idle" /\ api.pc \in {"success", "failed"}

Finish ==
    /\ Done
    /\ tool' = IdleTool
    /\ api' = IdleApi
    /\ obs' = IdleObs
    /\ trace' = <<>>
    /\ UNCHANGED <<calls, fn, environ, globals>>

\* between two calls the process environment is changed
SetEnv ==
    /\ tool.pc = "idle"
    /\ api.pc = "idle"
    /\ environ' \in Environs \ {environ}
    /\ UNCHANGED <<calls, fn, globals, tool, api, obs, trace>>

Steps ==
    \/ ApiBegin
    \/ AttemptSucceeds
    \/ AttemptHTTPStatusError
    \/ AttemptTimeout
    \/ AttemptNetworkError
    \/ AttemptUnexpected
    \/ SleepEnds
    \/ InfoStarting
    \/ Prepare
    \/ CallApi
    \/ ApiReturns
    \/ ApiRaises
    \/ InfoCompleted
    \/ HandleException
    \/ Finish

Next ==
    \/ CallDirect(DirectArgs)
    \/ Analyze(ToolArgs)
    \/ Steps

Spec == Init /\ [][Next]_vars

\* the same program with the process environment changing between calls
EnvDirectArgs ==
    [image_base64 : {RAW_OK},
     mime_type : {IMAGE_JPEG},
     max_tokens : {DEFAULT_API_MAX_TOKENS},
     max_retries : {0, 2},
     retry_delay : {1}]

EnvToolArgs ==
    [image_data : {URL_PNG, PATH_DENIED},
     user_context : {"Extract text"},
     max_tokens : {DEFAULT_TOOL_MAX_TOKENS},
     ctx : {TRUE}]

NextEnv ==
    \/ SetEnv
    \/ CallDirect(EnvDirectArgs)
    \/ Analyze(EnvToolArgs)
    \/ Steps

SpecEnv == Init /\ [][NextEnv]_vars

\* the awaited client.post ends, one way or another
AttemptCompletes ==
    \/ AttemptSucceeds
    \/ AttemptHTTPStatusError
    \/ AttemptTimeout
    \/ AttemptNetworkError
    \/ AttemptUnexpected

\* the program with an event loop that runs the call, a transport whose
\* requests all complete, and sleeps that all end
SpecLive ==
    /\ Init
    /\ [][Next]_vars
    /\ WF_vars(ApiBegin)
    /\ WF_vars(AttemptCompletes)
    /\ WF_vars(SleepEnds)

(* ------------------------------------------------------------------ *)
(* Direct calls of the normalizer and the validator                    *)
(* ------------------------------------------------------------------ *)

\* the paths of the model: those of FileSystem, and one that does not exist
Paths == {PATH_PNG, PATH_GIF, PATH_TXT, PATH_NOEXT, PATH_DENIED, PATH_DIR, PATH_MISSING}

\* the <fmt> of a data URL
Formats ==
    {FMT_PNG, FMT_JPEG, FMT_GIF, FMT_UPPER, FMT_SVG}

\* the <payload> of a data URL: valid base64, padded, invalid, empty, and
\* text that holds a comma or a semicolon
Payloads ==
    {RAW_OK, RAW_BAD, PAYLOAD_PADDED, <<>>, PAYLOAD_COMMA, PAYLOAD_SEMI}

\* data:image/<fmt>;base64,<payload>
DataUrl(fmt, payload) ==
    DATA_IMAGE \o <<"/">> \o fmt \o <<";", "b", "a", "s", "e", "6", "4", ",">>
        \o payload

DataUrls == {DataUrl(fmt, payload) : fmt \in Formats, payload \in Payloads}

\* inputs that start with "data:image" and have no comma
NoCommaUrls == {URL_NOCOMMA, DATA_IMAGE, URL_NOPAYLOAD}

\* the inputs of the direct calls of prepare_image_for_api
FnImageInputs == Paths \cup DataUrls \cup NoCommaUrls \cup {RAW_OK, RAW_NOPAD, RAW_BAD}

\* the inputs of the direct calls of validate_image_format
FnMimeTypes ==
    {IMAGE_JPEG, IMAGE_JPG, IMAGE_PNG, IMAGE_GIF, TEXT_PLAIN, MIME_UPPER_PNG,
     MIME_MIXED_JPG, MIME_UPPER_GIF, MIME_WEBP, <<>>}

\* prepare_image_for_api(image_input) is called
FnPrepare ==
    /\ fn.op = "none"
    /\ \E image_input \in FnImageInputs :
          \E outcome \in OpenOutcomes(image_input) :
             fn' = [IdleFn EXCEPT !.op = "prepare_image_for_api",
                                  !.arg = image_input,
                                  !.outcome = IF PathExists(image_input)
                                              THEN outcome ELSE "",
                                  !.result = prepare_image_for_api(image_input, outcome)]
    /\ UNCHANGED <<calls, environ, globals, tool, api, obs, trace>>

\* encode_file_to_base64(file_path) is called
FnEncode ==
    /\ fn.op = "none"
    /\ \E file_path \in Paths :
          \E outcome \in OpenOutcomes(file_path) :
             fn' = [IdleFn EXCEPT !.op = "encode_file_to_base64",
                                  !.arg = file_path, !.outcome = outcome,
                                  !.result = encode_file_to_base64(file_path, outcome)]
    /\ UNCHANGED <<calls, environ, globals, tool, api, obs, trace>>

\* validate_image_format(mime_type) is called
FnValidate ==
    /\ fn.op = "none"
    /\ \E mime_type \in FnMimeTypes :
          fn' = [IdleFn EXCEPT !.op = "validate_image_format", !.arg = mime_type,
                               !.result = validate_image_format(mime_type),
                               !.applied = 1]
    /\ UNCHANGED <<calls, environ, globals, tool, api, obs, trace>>

\* validate_image_format is called on what it returned
FnValidateAgain ==
    /\ fn.op = "validate_image_format"
    /\ fn.applied = 1
    /\ fn' = [fn EXCEPT !.result = validate_image_format(fn.result),
                        !.applied = 2, !.prev = fn.result]
    /\ UNCHANGED <<calls, environ, globals, tool, api, obs, trace>>

\* the caller is done with the result
FnDone ==
    /\ fn.op # "none"
    /\ fn' = IdleFn
    /\ UNCHANGED <<calls, environ, globals, tool, api, obs, trace>>

NextFn ==
    \/ FnPrepare
    \/ FnEncode
    \/ FnValidate
    \/ FnValidateAgain
    \/ FnDone

SpecFn == Init /\ [][NextFn]_vars

(* ------------------------------------------------------------------ *)
(* Concurrent calls of call_glm_vision_api                             *)
(* ------------------------------------------------------------------ *)

\* the arguments of the concurrent calls
ConcArgs ==
    [image_base64 : {RAW_OK},
     mime_type : {IMAGE_JPEG},
     max_tokens : {DEFAULT_API_MAX_TOKENS},
     max_retries : {1, 2},
     retry_delay : {1}]

\* how the requests of one call end, in the order they are sent
ScriptOutcomes ==
    OkOutcomes \cup TimeoutOutcomes
        \cup {Outcome("status", 500, "text", "<html>"),
              Outcome("status", 401, "message", "quota exceeded")}

Scripts == [1..2 -> ScriptOutcomes]

\* lines 136-221: the local variables a call works on are those of its own
\* coroutine frame
Locals_Shared(cs, t) == cs["task A"].frame

Locals(cs, t) == cs[t].frame

\* task t awaits call_glm_vision_api(...)
ConcCall(t) ==
    /\ calls[t].frame.pc = "idle"
    /\ \E a \in ConcArgs, script \in Scripts :
          LET called == NewCall("direct", a.image_base64, <<"Test prompt">>,
                                a.mime_type, a.max_tokens, a.max_retries,
                                a.retry_delay)
          IN  calls' = [calls EXCEPT ![t] = [frame |-> called, args |-> called,
                                             script |-> script, todo |-> script]]
    /\ UNCHANGED <<environ, globals, tool, api, obs, trace, fn>>

\* lines 138-181 in task t
ConcBegin(t) ==
    /\ Locals(calls, t).pc = "init"
    /\ calls' = [calls EXCEPT ![t].frame = BeginFrame(Locals(calls, t))]
    /\ UNCHANGED <<environ, globals, tool, api, obs, trace, fn>>

\* lines 177-221 in task t: its awaited client.post ends
ConcAttemptEnds(t) ==
    /\ Locals(calls, t).pc = "attempting"
    /\ calls[t].todo # <<>>
    /\ calls' = [calls EXCEPT
                    ![t].frame = AfterAttempt(Locals(calls, t), Head(calls[t].todo)),
                    ![t].todo = Tail(@)]
    /\ UNCHANGED <<environ, globals, tool, api, obs, trace, fn>>

\* line 215 in task t: its awaited asyncio.sleep ends
ConcSleepEnds(t) ==
    /\ Locals(calls, t).pc = "retrywait"
    /\ calls' = [calls EXCEPT ![t].frame = LoopAdvance(Locals(calls, t))]
    /\ UNCHANGED <<environ, globals, tool, api, obs, trace, fn>>

\* the call of task t is over and its frame is gone
ConcFinish(t) ==
    /\ calls[t].frame.pc \in {"success", "failed"}
    /\ calls' = [calls EXCEPT ![t] = IdleCall]
    /\ UNCHANGED <<environ, globals, tool, api, obs, trace, fn>>

NextConc ==
    \E t \in Tasks :
        \/ ConcCall(t)
        \/ ConcBegin(t)
        \/ ConcAttemptEnds(t)
        \/ ConcSleepEnds(t)
        \/ ConcFinish(t)

SpecConc == Init /\ [][NextConc]_vars

\* the frame in which a call ends when it runs alone from `frame`, its
\* requests ending as `todo`
RECURSIVE RunAlone(_, _)
RunAlone(frame, todo) ==
    CASE frame.pc = "init" -> RunAlone(BeginFrame(frame), todo)
      [] frame.pc = "attempting" /\ todo # <<>> ->
            RunAlone(AfterAttempt(frame, Head(todo)), Tail(todo))
      [] frame.pc = "retrywait" -> RunAlone(LoopAdvance(frame), todo)
      [] OTHER -> frame

(* ------------------------------------------------------------------ *)
(* Properties                                                          *)
(* ------------------------------------------------------------------ *)

\* the tool's call is over
ToolDone == tool.pc \in {"returned", "raised"}

\* image normalization or the client raised, and the tool's call is over
ChainFailed == ToolDone /\ tool.e # NoExc /\ tool.e # SinkError

\* C1: whenever image normalization or the vision API client fails,
\* analyze_image_with_context returns a string that begins with
\* "Image analysis failed:" and lets no exception escape.
C1_NeverRaises ==
    ChainFailed =>
        /\ tool.pc = "returned"
        /\ tool.returned # <<>>
        /\ Head(tool.returned) = "Image analysis failed: "

\* a call that made at least one attempt, every attempt ending with status
\* 500, and that has failed
Exhausted500 == api.pc = "failed" /\ obs.posts >= 1 /\ obs.all500

StrictlyIncreasing(s) == \A i \in 1..(Len(s) - 1) : s[i] < s[i + 1]

\* C2 as stated: when every attempt fails with status 500 the call makes
\* exactly max_retries attempts, sleeps between consecutive attempts with
\* strictly increasing delays, and raises an error containing "GLM API error".
C2_AlwaysIncreasing ==
    /\ (obs.all500 /\ api.pc = "attempting") => Len(obs.sleeps) = obs.posts - 1
    /\ Exhausted500 =>
        /\ obs.posts = api.max_retries
        /\ Len(obs.sleeps) = obs.posts - 1
        /\ StrictlyIncreasing(obs.sleeps)
        /\ "GLM API error: " \in Range(api.raised.msg)

\* C2, amended: the same, the delays being strictly increasing whenever
\* retry_delay > 0 (with retry_delay = 0 every delay is 0).
C2_IncreasingWhenPositive ==
    /\ (obs.all500 /\ api.pc = "attempting") => Len(obs.sleeps) = obs.posts - 1
    /\ Exhausted500 =>
        /\ obs.posts = api.max_retries
        /\ Len(obs.sleeps) = obs.posts - 1
        /\ api.retry_delay > 0 => StrictlyIncreasing(obs.sleeps)
        /\ api.retry_delay = 0 => \A i \in 1..Len(obs.sleeps) : obs.sleeps[i] = 0
        /\ "GLM API error: " \in Range(api.raised.msg)

C2_Witness ==
    /\ Exhausted500
    /\ api.max_retries = 3
    /\ obs.posts = 3
    /\ obs.sleeps = <<2, 4>>

\* C3: once an attempt ends with status 401, 403 or 429 the call has failed:
\* it raised the error of that attempt, no attempt and no sleep follow it, and
\* when it was the first attempt exactly one request was sent.
C3_NonRetryableStops ==
    (obs.last.kind = "status" /\ obs.last.status \in {401, 403, 429}) =>
        /\ api.pc = "failed"
        /\ api.raised = api.last_error
        /\ obs.posts = api.attempt + 1
        /\ Len(obs.sleeps) = api.attempt
        /\ api.attempt = 0 => obs.posts = 1 /\ obs.sleeps = <<>>

C3_Witness ==
    /\ api.pc = "failed"
    /\ obs.last.kind = "status"
    /\ obs.last.status = 429
    /\ api.attempt = 2
    /\ obs.posts = 3

\* C4: when the first attempt gets a 2xx response with a well-formed body the
\* call returns exactly its choices[0].message.content, after one request and
\* no sleep.
C4_FirstAttemptSuccess ==
    (api.pc = "success" /\ api.attempt = 0) =>
        /\ obs.last.kind = "ok"
        /\ api.returned = <<obs.last.text>>
        /\ obs.posts = 1
        /\ obs.sleeps = <<>>

C4_Witness ==
    /\ api.pc = "success"
    /\ api.attempt = 0
    /\ api.returned = <<"answer B">>

\* the API key or the API base is absent, or the image is not valid base64
PreconditionFails ==
    \/ GLM_API_KEY = None \/ GLM_API_KEY = ""
    \/ GLM_API_BASE = None \/ GLM_API_BASE = ""
    \/ ~is_valid_base64(api.image_base64)

\* C5: a call whose precondition fails raises ValueError at once: no request
\* is sent, no sleep happens and no attempt is made, whatever max_retries is.
C5_PreconditionFailsFast ==
    (api.pc \notin {"idle", "init"} /\ PreconditionFails) =>
        /\ api.pc = "failed"
        /\ api.raised.type = "ValueError"
        /\ api.last_error = NoExc
        /\ obs.posts = 0
        /\ obs.sleeps = <<>>

C5_Witness ==
    /\ api.pc = "failed"
    /\ api.image_base64 = RAW_BAD
    /\ GLM_API_KEY = "sk-1"
    /\ GLM_API_BASE = DEFAULT_API_BASE
    /\ api.max_retries = 3
    /\ obs.posts = 0

\* the configuration that the process environment holds now
EnvConfig ==
    [GLM_API_BASE |-> Getenv(environ, "GLM_API_BASE", DEFAULT_API_BASE),
     GLM_API_KEY |-> Getenv(environ, "GLM_API_KEY", None),
     GLM_MODEL_NAME |-> Getenv(environ, "GLM_MODEL_NAME", DEFAULT_MODEL_NAME)]

\* C6: every configuration value a call has read is the one the process
\* environment holds at the time of the call (the environment changes only
\* between calls).
C6_ReadAtCallTime ==
    \A name \in {"GLM_API_BASE", "GLM_API_KEY", "GLM_MODEL_NAME"} :
        api.config[name] # Unread => api.config[name] = EnvConfig[name]

\* C7: the i-th sleep of a call (after the failed attempt of index i - 1) lasts
\* retry_delay * 2^(i-1); a sleep follows a failed attempt only when it is not
\* the last permitted one; a call that made all its max_retries attempts and
\* failed slept max_retries - 1 times.
C7_BackoffDelays ==
    /\ \A i \in 1..Len(obs.sleeps) : obs.sleeps[i] = api.retry_delay * 2 ^ (i - 1)
    /\ api.pc = "retrywait" =>
        /\ Len(obs.sleeps) = api.attempt + 1
        /\ api.attempt < api.max_retries - 1
    /\ api.pc \in {"attempting", "success", "failed"} =>
        Len(obs.sleeps) = api.attempt
    /\ (api.pc = "failed" /\ obs.posts >= 1 /\ obs.posts = api.max_retries) =>
        Len(obs.sleeps) = api.max_retries - 1

C7_Witness ==
    /\ api.pc = "failed"
    /\ obs.last.kind = "timeout"
    /\ api.max_retries = 3
    /\ api.retry_delay = 1
    /\ obs.posts = 3
    /\ obs.sleeps = <<1, 2>>

\* C8: a call that fails after at least one attempt raises the error captured
\* from its most recent attempt.
C8_RaisesLastError ==
    (api.pc = "failed" /\ obs.posts >= 1) =>
        /\ api.raised = RuntimeError(error_msg(obs.last))
        /\ api.raised = api.last_error

C8_Witness ==
    /\ api.pc = "failed"
    /\ obs.posts = 3
    /\ obs.last.kind = "network"
    /\ ~obs.all500

\* the indices of the trace entries that are calls of ctx.error
ErrorCalls == {i \in DOMAIN trace : trace[i].op = "error"}

\* the "completed" notification was sent
CompletedEmitted ==
    \E i \in DOMAIN trace :
        trace[i].op = "info" /\ trace[i].ok /\ trace[i].arg = INFO_COMPLETED

\* C9: when a call with a progress sink ends after a failure, ctx.error was
\* called exactly once, with "Image analysis failed: <message>", which is the
\* string the call returns when it returns, and the "completed" notification
\* was not sent.
C9_ErrorNotifiedOnce ==
    (ToolDone /\ tool.ctx /\ tool.e # NoExc) =>
        /\ Cardinality(ErrorCalls) = 1
        /\ \A i \in ErrorCalls :
              /\ trace[i].arg = <<"Image analysis failed: ">> \o tool.e.msg
              /\ tool.pc = "returned" => tool.returned = trace[i].arg
        /\ ~CompletedEmitted

C9_Witness ==
    /\ tool.pc = "returned"
    /\ tool.ctx
    /\ tool.e.type = "RuntimeError"
    /\ obs.posts = 5
    /\ Cardinality(ErrorCalls) = 1

\* C10: a call with a progress sink that succeeds sent "starting" before it
\* normalized the image, sent "completed" after the client returned, never
\* called ctx.error, and returns the content of the response unchanged.
C10_SuccessNotifications ==
    (tool.pc = "returned" /\ tool.ctx /\ tool.e = NoExc) =>
        /\ Len(trace) = 5
        /\ trace[1] = Event("info", INFO_STARTING, TRUE)
        /\ trace[2].op = "prepare_image_for_api"
        /\ trace[3].op = "call_glm_vision_api"
        /\ trace[4] = Event("result", <<obs.last.text>>, TRUE)
        /\ trace[5] = Event("info", INFO_COMPLETED, TRUE)
        /\ ErrorCalls = {}
        /\ obs.last.kind = "ok"
        /\ tool.returned = <<obs.last.text>>

C10_Witness ==
    /\ tool.pc = "returned"
    /\ tool.ctx
    /\ tool.e = NoExc
    /\ obs.posts = 2
    /\ tool.returned = <<"answer A">>

\* the invocations of the client by the tool
ClientCalls == {i \in DOMAIN trace : trace[i].op = "call_glm_vision_api"}

\* prepare_image_for_api returned to the tool
Prepared ==
    \E i \in DOMAIN trace : trace[i].op = "prepare_image_for_api" /\ trace[i].ok

\* C11: analyze_image_with_context invokes the client at most once, and exactly
\* once when normalization succeeded; the invocation carries the base64 data
\* and the MIME type that prepare_image_for_api returns for image_data, the
\* fixed preamble with user_context inside it, and the caller's max_tokens,
\* which is also the max_tokens of the request body.
C11_ClientInvokedOnce ==
    /\ Cardinality(ClientCalls) <= 1
    /\ (tool.pc \in {"awaiting", "info_completed"} \/ (ToolDone /\ Prepared)) =>
           Cardinality(ClientCalls) = 1
    /\ (tool.pc = "awaiting" /\ api.pc = "init") =>
           /\ \E outcome \in OpenOutcomes(tool.image_data) :
                  prepare_image_for_api(tool.image_data, outcome)
                      = Ok(<<api.image_base64, api.mime_type>>)
           /\ Len(api.prompt) = 3
           /\ api.prompt[2] = tool.user_context
           /\ api.prompt[1] = enhanced_prompt("")[1]
           /\ api.prompt[3] = enhanced_prompt("")[3]
           /\ api.max_tokens = tool.max_tokens
    /\ (tool.pc = "awaiting" /\ api.payload # NoPayload) =>
           /\ api.payload.max_tokens = tool.max_tokens
           /\ api.payload.text[2] = tool.user_context

C11_Witness ==
    /\ tool.pc = "awaiting"
    /\ api.pc = "attempting"
    /\ tool.image_data = PATH_GIF
    /\ tool.max_tokens = 1000
    /\ tool.user_context = "Describe this photo"

\* the string sub occurs in s
Contains(s, sub) ==
    \E i \in 1..(Len(s) - Len(sub) + 1) : SubSeq(s, i, i + Len(sub) - 1) = sub

\* a direct call of the normalizer was given a path that does not exist
MissingPathCall ==
    /\ fn.op \in {"prepare_image_for_api", "encode_file_to_base64"}
    /\ fn.arg \in Paths
    /\ ~PathExists(fn.arg)

\* C12: for a file path that does not exist, prepare_image_for_api and
\* encode_file_to_base64 both raise a ValueError whose message names the path.
C12_MissingPathFails ==
    MissingPathCall =>
        /\ ~fn.result.ok
        /\ fn.result.exc.type = "ValueError"
        /\ Contains(fn.result.exc.msg, fn.arg)

\* a direct call of prepare_image_for_api on an existing file returned
ReadFileCall ==
    /\ fn.op = "prepare_image_for_api"
    /\ PathExists(fn.arg)
    /\ fn.result.ok

\* C13: for every existing readable file, prepare_image_for_api returns a MIME
\* type of {image/jpeg, image/jpg, image/png}, and image/jpeg when the
\* extension is unknown or maps to a type that is not an image type.
C13_FileMimeSupported ==
    ReadFileCall =>
        /\ fn.result.val[2] \in supported_formats
        /\ (GuessType(fn.arg) = <<>> \/ ~StartsWith(GuessType(fn.arg), IMAGE_SLASH)) =>
               fn.result.val[2] = IMAGE_JPEG

\* C14: for an input data:image/<fmt>;base64,<payload> that is not an existing
\* path, prepare_image_for_api returns exactly (<payload>, image/<fmt>): the
\* payload is all that follows the first comma, the MIME type the text between
\* "data:" and the first ";".
C14_DataUrlSplit ==
    \A fmt \in Formats, payload \in Payloads :
        (fn.op = "prepare_image_for_api" /\ fn.arg = DataUrl(fmt, payload)
            /\ ~PathExists(fn.arg)) =>
           fn.result = Ok(<<payload, IMAGE_SLASH \o fmt>>)

C14_Witness ==
    /\ fn.op = "prepare_image_for_api"
    /\ fn.arg = DataUrl(FMT_SVG, PAYLOAD_COMMA)
    /\ ~PathExists(fn.arg)
    /\ fn.result.ok

\* the MIME type inside the image data URL of the request body
RequestMime == Split1(Split1(api.payload.image_url, ";")[1], ":")[2]

\* C15: the MIME type in the image data URL of every request that
\* call_glm_vision_api sends is one of {image/jpeg, image/jpg, image/png}; a
\* MIME type from the normalizer that is none of them, compared without
\* regard to case, is sent as image/jpeg.
C15_RequestMimeSupported ==
    obs.posts >= 1 =>
        /\ RequestMime \in supported_formats
        /\ api.caller = "tool" =>
               RequestMime = IF Lower(tool.mime_type) \in supported_formats
                             THEN Lower(tool.mime_type) ELSE IMAGE_JPEG

C15_Witness ==
    /\ obs.posts >= 1
    /\ api.caller = "tool"
    /\ tool.mime_type = IMAGE_GIF
    /\ RequestMime = IMAGE_JPEG

\* C16: validate_image_format applied to its own result gives that result
\* again; an input that, lower-cased, is none of image/jpeg, image/jpg,
\* image/png gives image/jpeg; an input that is one of them gives the input
\* lower-cased.
C16_ValidateIdempotent ==
    fn.op = "validate_image_format" =>
        /\ fn.applied = 2 => fn.result = fn.prev
        /\ fn.applied = 1 =>
               fn.result = IF Lower(fn.arg) \in {IMAGE_JPEG, IMAGE_JPG, IMAGE_PNG}
                           THEN Lower(fn.arg) ELSE IMAGE_JPEG

C16_Witness ==
    /\ fn.op = "validate_image_format"
    /\ fn.applied = 2
    /\ fn.arg = MIME_MIXED_JPG
    /\ fn.result = IMAGE_JPG

\* the transitions of the state machine of one call, as pairs of api.pc
MachineTransitions ==
    {<<"init", "attempting">>, <<"attempting", "success">>,
     <<"attempting", "retrywait">>, <<"retrywait", "attempting">>,
     <<"attempting", "failed">>}

\* a call begins, and the frame of a call that is over goes away
FrameLifecycle ==
    {<<"idle", "init">>, <<"success", "idle">>, <<"failed", "idle">>}

\* nothing is posted and no sleep begins once the call is over
TerminalStep ==
    api.pc \in {"success", "failed"} =>
        /\ api'.pc \in {api.pc, "idle"}
        /\ api'.pc = api.pc => (obs'.posts = obs.posts /\ obs'.sleeps = obs.sleeps)

\* C17 as stated: a call changes state only along Init -> Attempting,
\* Attempting -> Success, Attempting -> RetryWait, RetryWait -> Attempting and
\* Attempting -> Failed, and nothing happens after Success or Failed.
C17_OnlySpecTransitions ==
    [][/\ api'.pc # api.pc =>
              <<api.pc, api'.pc>> \in MachineTransitions \cup FrameLifecycle
       /\ TerminalStep]_vars

\* C17 amended: the same with Init -> Failed added (a precondition fails, or
\* max_retries is not positive); Failed is still never entered from RetryWait.
C17_TransitionsWithInitFailure ==
    [][/\ api'.pc # api.pc =>
              <<api.pc, api'.pc>> \in
                  MachineTransitions \cup {<<"init", "failed">>} \cup FrameLifecycle
       /\ TerminalStep]_vars

C17_Witness ==
    /\ api.pc = "failed"
    /\ obs.posts = 0
    /\ api.max_retries >= 1
    /\ api.raised.type = "ValueError"

\* the attempt that ended with this step failed with something other than an
\* HTTP status of 401, 403 or 429
RetryableFailure(o) ==
    /\ o.kind # "ok"
    /\ ~(o.kind = "status" /\ o.status \in {401, 403, 429})

\* a step in which the awaited client.post ends
AttemptEnded == api.pc = "attempting" /\ api'.pc # "attempting"

\* a retryable failure with attempts remaining begins a backoff sleep
RetryStep ==
    (AttemptEnded /\ RetryableFailure(obs'.last) /\ api.attempt + 1 < api.max_retries)
        => (api'.pc = "retrywait" /\ Len(obs'.sleeps) = Len(obs.sleeps) + 1)

\* the end of a backoff sleep is the next attempt
SleepStep ==
    (api.pc = "retrywait" /\ api'.pc # "retrywait")
        => (api'.pc = "attempting" /\ api'.attempt = api.attempt + 1
                /\ obs'.posts = obs.posts + 1)

\* the call failed on an unexpected exception after using all its attempts
ExhaustedUnexpected ==
    (api.pc = "failed" /\ obs.last.kind \in {"unexpected", "malformed"})
        => (obs.posts = api.max_retries
                /\ api.raised.type = "RuntimeError"
                /\ api.raised.msg[1] = "Failed to call GLM API: ")

\* C18: an attempt that fails with a timeout, a network error, an HTTP status
\* other than 401, 403 and 429, or an unexpected exception (a malformed 2xx
\* body included) is followed by a sleep and another attempt while attempts
\* remain; a call that fails on an unexpected exception after using all its
\* attempts raises a RuntimeError that starts with "Failed to call GLM API".
C18_OtherFailuresRetried ==
    [][RetryStep /\ SleepStep]_vars /\ []ExhaustedUnexpected

C18_Witness ==
    /\ api.pc = "failed"
    /\ obs.last.kind = "malformed"
    /\ obs.posts = 3
    /\ Len(obs.sleeps) = 2
    /\ api.raised.msg[1] = "Failed to call GLM API: "

\* the number of requests a call may send
MaxAttempts == IF api.max_retries > 0 THEN api.max_retries ELSE 0

\* C19: when every HTTP attempt and every backoff sleep completes, a call of
\* call_glm_vision_api ends in Success or Failed, and it never sends more than
\* max_retries requests.
C19_Terminates ==
    /\ (api.pc = "init") ~> (api.pc \in {"success", "failed"})
    /\ [](obs.posts <= MaxAttempts)

C19_Witness ==
    /\ api.pc = "failed"
    /\ api.max_retries >= 3
    /\ obs.posts = api.max_retries
    /\ obs.last.kind = "timeout"

\* a direct call of prepare_image_for_api on a data URL that is not a path
DataUrlCall ==
    /\ fn.op = "prepare_image_for_api"
    /\ StartsWith(fn.arg, DATA_IMAGE)
    /\ ~PathExists(fn.arg)

\* C20: for an input that starts with "data:image" and is not an existing
\* path, prepare_image_for_api raises nothing; when the header and the
\* payload cannot be told apart it returns MIME type image/jpeg.
C20_ParseFailureFallsBack ==
    DataUrlCall =>
        /\ fn.result.ok
        /\ Find(fn.arg, ",") = 0 => fn.result.val[2] = IMAGE_JPEG

\* a direct call of the normalizer in which the open or the read of the file
\* failed
FileReadFails ==
    /\ fn.op \in {"prepare_image_for_api", "encode_file_to_base64"}
    /\ fn.outcome \notin {"", "ok"}

\* C21: every failure to open or read the file in encode_file_to_base64 (not
\* found, the file gone after the existence check of prepare_image_for_api,
\* permission denied, any other I/O failure) is raised as a ValueError whose
\* message describes the failure and names the path.
C21_ReadFailuresAreValueErrors ==
    FileReadFails =>
        /\ ~fn.result.ok
        /\ fn.result.exc.type = "ValueError"
        /\ fn.result.exc.msg[1] \in {"File not found: ",
                                     "Permission denied when reading file: ",
                                     "Failed to encode file "}
        /\ Contains(fn.result.exc.msg, fn.arg)

C21_Witness ==
    /\ fn.op = "prepare_image_for_api"
    /\ fn.arg = PATH_PNG
    /\ fn.outcome = "FileNotFoundError"
    /\ fn.result.exc.type = "ValueError"

\* C22: within one call of call_glm_vision_api at most one HTTP session is
\* open at any time; while an attempt is awaited the open session is the one
\* this attempt entered (session attempt + 1); no session is open during a
\* backoff sleep or once the call has returned or raised.
C22_OneSessionPerAttempt ==
    /\ Cardinality(obs.open) <= 1
    /\ api.pc = "attempting" =>
           (obs.open = {api.attempt + 1} /\ obs.sessions = api.attempt + 1)
    /\ api.pc \in {"retrywait", "success", "failed"} => obs.open = {}

C22_Witness ==
    /\ api.pc = "retrywait"
    /\ obs.sessions = 2
    /\ obs.open = {}
    /\ obs.last.kind = "network"

\* the call of task t is where it would be had it run alone: its attempt
\* counter counts its own requests, and it ends in the frame RunAlone gives
\* for its arguments and its responses
AsAlone(t) ==
    LET c == calls[t]
    IN  /\ c.frame.pc = "attempting" => c.frame.attempt = Len(c.script) - Len(c.todo)
        /\ c.frame.pc \in {"attempting", "retrywait", "success", "failed"} =>
               RunAlone(c.frame, c.todo) = RunAlone(c.args, c.script)
        /\ c.frame.pc \in {"success", "failed"} => c.frame = RunAlone(c.args, c.script)

\* a task in a backoff sleep does not keep the request of another from ending
NotBlocked(t) ==
    (calls[t].frame.pc = "attempting"
        /\ \E u \in Tasks \ {t} : calls[u].frame.pc = "retrywait")
    => ENABLED ConcAttemptEnds(t)

\* C23: concurrent calls of call_glm_vision_api do not interfere: the attempt
\* counter and the captured error are those of the call's own frame, a call
\* in a backoff sleep does not keep another call from attempting or
\* completing, and under every interleaving each call ends as it would have
\* alone with the same responses.
C23_CallsDoNotInterfere ==
    \A t \in Tasks : AsAlone(t) /\ NotBlocked(t)

C23_Witness ==
    /\ calls["task A"].frame.pc = "retrywait"
    /\ calls["task A"].frame.last_error.msg[1] = "GLM API timeout: "
    /\ calls["task B"].frame.pc = "success"
    /\ calls["task B"].frame.attempt = 1
    /\ calls["task B"].frame.returned = <<"answer B">>

\* C24: when the attempt with index k succeeds after k retryable failures,
\* call_glm_vision_api returns the content of that response and raises
\* nothing, having sent exactly k + 1 requests and slept exactly k times; the
\* errors captured before are not raised.
C24_SuccessAfterRetries ==
    obs.last.kind = "ok" =>
        /\ api.pc = "success"
        /\ api.returned = <<obs.last.text>>
        /\ api.raised = NoExc
        /\ obs.posts = api.attempt + 1
        /\ Len(obs.sleeps) = api.attempt
        /\ api.attempt < api.max_retries

C24_Witness ==
    /\ obs.last.kind = "ok"
    /\ api.pc = "success"
    /\ api.attempt = 2
    /\ api.last_error # NoExc
    /\ api.returned = <<"answer A">>

\* the error of line 221
GenericError == Exc("RuntimeError", <<"Failed to call GLM API after maximum retries">>)

\* C25: a call with max_retries <= 0 whose preconditions hold sends no request,
\* sleeps never and raises RuntimeError("Failed to call GLM API after maximum
\* retries"); a call that raises this error has max_retries <= 0, and a call
\* that fails after at least one attempt raises the error captured from an
\* attempt.
C25_GenericErrorOnlyWithoutAttempts ==
    api.pc = "failed" =>
        /\ (api.max_retries <= 0 /\ PreconditionError(api.image_base64) = NoExc) =>
               (obs.posts = 0 /\ obs.sleeps = <<>> /\ api.raised = GenericError)
        /\ api.raised = GenericError => (api.max_retries <= 0 /\ obs.posts = 0)
        /\ obs.posts >= 1 =>
               (api.raised = Exc("RuntimeError", error_msg(obs.last))
                   /\ api.raised # GenericError)

C25_Witness ==
    /\ api.pc = "failed"
    /\ api.max_retries = -1
    /\ obs.posts = 0
    /\ api.raised = GenericError

\* a ctx.info call of the tool raised, and the tool's call is over
InfoFailed == ToolDone /\ tool.e = SinkError

\* the "starting" notification is the one that failed
StartingFailed ==
    \E i \in DOMAIN trace :
        trace[i].op = "info" /\ trace[i].arg = INFO_STARTING /\ ~trace[i].ok

\* C26: when ctx.info fails inside analyze_image_with_context, ctx.error is
\* called once and the string "Image analysis failed: <message>" is returned;
\* when it is the "completed" notification that failed, the client's answer
\* is not what is returned; when it is the "starting" notification, neither
\* prepare_image_for_api nor call_glm_vision_api was invoked.
C26_InfoFailureHandled ==
    InfoFailed =>
        /\ Cardinality(ErrorCalls) = 1
        /\ tool.pc = "returned"
        /\ tool.returned = <<"Image analysis failed: ">> \o SinkError.msg
        /\ tool.result # <<>> => tool.returned # tool.result
        /\ StartingFailed =>
               (\A i \in DOMAIN trace :
                   trace[i].op \notin {"prepare_image_for_api", "call_glm_vision_api"})

====
